---------------------------- MODULE Spec2Model ----------------------------
(***************************************************************************)
(* Model of the ABP pressure sensor driver (src/src/lib.rs).               *)
(*                                                                         *)
(* Three specifications share the variables:                               *)
(*   Spec        Abp::new applied to a part number                         *)
(*   SpecRead    Abp::read and Abp::pressure_and_temperature applied to a  *)
(*               value of the struct Abp and to what the bus returns       *)
(*   SpecDecode  decode_pressure and decode_pressure_and_temperature       *)
(*               applied to a byte buffer                                  *)
(*                                                                         *)
(* Strings are sequences of one-character strings.  An f32 is the record   *)
(* [k, n, d]: k = "fin" is the rational n/d (d > 0), k = "inf" is the      *)
(* infinity of sign n, k = "nan" is NaN.  Rounding to 24 bits of mantissa  *)
(* and the sign of zero are not modelled; no property below reads them.    *)
(* Option<T> is a sequence of length 0 (None) or 1 (Some).                 *)
(***************************************************************************)
EXTENDS Integers, Sequences, FiniteSets, TLC

VARIABLES
    pc,           \* where the program is: "start", "constructed", "panicked", "ready", "decode"
    part_nr,      \* the part_nr argument of Abp::new
    self,         \* Option<Abp>: the driver's fields (without the i2c and delay handles)
    self0,        \* the driver's fields as they were when the driver was built
    panic,        \* which panic! of Abp::new ended construction, "none" otherwise
    calls,        \* number of read()/pressure_and_temperature() calls made so far
    i2c_log,      \* the i2c.read(address, buffer) calls issued by the latest call
    delay_calls,  \* number of delay.delay_ms calls issued so far
    last,         \* the latest call: [op, in, out]
    seen,         \* every <<op, in, out>> observed so far
    buffer,       \* the 4 bytes given to the decoders
    out2,         \* Option<(u8, u16)>: result of decode_pressure(buffer[0..2])
    out4          \* Option<Output>: result of decode_pressure_and_temperature(buffer)

vars == <<pc, part_nr, self, self0, panic, calls, i2c_log, delay_calls, last, seen,
          buffer, out2, out4>>

Min(a, b) == IF a < b THEN a ELSE b

RECURSIVE Pow(_, _)
Pow(b, e) == IF e = 0 THEN 1 ELSE b * Pow(b, e - 1)

(***************************************************************************)
(* f32 arithmetic, as far as convert_pressure and Abp::new use it.         *)
(***************************************************************************)
Fin(n, d) == [k |-> "fin", n |-> n, d |-> d]
Inf(s)    == [k |-> "inf", n |-> s, d |-> 0]
NaN       == [k |-> "nan", n |-> 0, d |-> 0]

Sign(n) == IF n > 0 THEN 1 ELSE IF n < 0 THEN -1 ELSE 0

FFromInt(n) == Fin(n, 1)

FNeg(a) == IF a.k = "nan" THEN NaN ELSE [a EXCEPT !.n = -a.n]

FAdd(a, b) ==
    CASE a.k = "nan" \/ b.k = "nan" -> NaN
      [] a.k = "inf" /\ b.k = "inf" -> IF a.n = b.n THEN a ELSE NaN
      [] a.k = "inf" -> a
      [] b.k = "inf" -> b
      [] OTHER -> Fin(a.n * b.d + b.n * a.d, a.d * b.d)

FSub(a, b) == FAdd(a, FNeg(b))

FMul(a, b) ==
    CASE a.k = "nan" \/ b.k = "nan" -> NaN
      [] a.k = "inf" \/ b.k = "inf" ->
            IF Sign(a.n) * Sign(b.n) = 0 THEN NaN ELSE Inf(Sign(a.n) * Sign(b.n))
      [] OTHER -> Fin(a.n * b.n, a.d * b.d)

FDiv(a, b) ==
    CASE a.k = "nan" \/ b.k = "nan" -> NaN
      [] a.k = "inf" /\ b.k = "inf" -> NaN
      [] a.k = "inf" -> Inf(IF b.n < 0 THEN -a.n ELSE a.n)
      [] b.k = "inf" -> Fin(0, 1)
      [] b.n = 0 -> IF a.n = 0 THEN NaN ELSE Inf(Sign(a.n))
      [] OTHER -> Fin(a.n * b.d * Sign(b.n), a.d * b.n * Sign(b.n))

(***************************************************************************)
(* substring::Substring::substring(start_index, end_index): the characters *)
(* with 0-based index in [start_index, end_index), clipped to the string;  *)
(* empty when end_index <= start_index.                                    *)
(***************************************************************************)
substring_inclusive(s, start_index, end_index) ==
    SubSeq(s, start_index, Min(end_index, Len(s)))

substring(s, start_index, end_index) ==
    IF end_index <= start_index THEN <<>>
    ELSE SubSeq(s, start_index + 1, Min(end_index, Len(s)))

(***************************************************************************)
(* <f32 as core::str::FromStr>::from_str: an optional sign, then either    *)
(* inf / infinity / nan in any case, or digits with an optional '.' (at    *)
(* least one digit) and an optional exponent e|E [sign] digits.            *)
(***************************************************************************)
Digits == {"0", "1", "2", "3", "4", "5", "6", "7", "8", "9"}

DigitVal(c) ==
    CASE c = "0" -> 0 [] c = "1" -> 1 [] c = "2" -> 2 [] c = "3" -> 3 [] c = "4" -> 4
      [] c = "5" -> 5 [] c = "6" -> 6 [] c = "7" -> 7 [] c = "8" -> 8 [] c = "9" -> 9

ToLower(c) ==
    CASE c = "I" -> "i" [] c = "N" -> "n" [] c = "F" -> "f" [] c = "A" -> "a"
      [] c = "T" -> "t" [] c = "Y" -> "y" [] c = "E" -> "e" [] OTHER -> c

RECURSIVE DigitPrefixLen(_)
DigitPrefixLen(s) ==
    IF s # <<>> /\ Head(s) \in Digits THEN 1 + DigitPrefixLen(Tail(s)) ELSE 0

RECURSIVE DigitsToNat(_)
DigitsToNat(s) ==
    IF s = <<>> THEN 0 ELSE 10 * DigitsToNat(SubSeq(s, 1, Len(s) - 1)) + DigitVal(s[Len(s)])

Drop(s, n) == SubSeq(s, n + 1, Len(s))

ParseErr == [ok |-> FALSE, val |-> NaN]
ParseOk(v) == [ok |-> TRUE, val |-> v]

\* the exponent part: [ok, exp]; s is what follows the mantissa
ParseExponent(s) ==
    IF s = <<>> THEN [ok |-> TRUE, exp |-> 0]
    ELSE IF ToLower(Head(s)) # "e" THEN [ok |-> FALSE, exp |-> 0]
    ELSE LET t    == Tail(s)
             neg  == t # <<>> /\ Head(t) = "-"
             u    == IF t # <<>> /\ Head(t) \in {"+", "-"} THEN Tail(t) ELSE t
             n    == DigitPrefixLen(u)
         IN  IF n = 0 \/ n # Len(u) THEN [ok |-> FALSE, exp |-> 0]
             ELSE [ok |-> TRUE, exp |-> IF neg THEN -DigitsToNat(u) ELSE DigitsToNat(u)]

f32_from_str(s) ==
    LET neg   == s # <<>> /\ Head(s) = "-"
        body  == IF s # <<>> /\ Head(s) \in {"+", "-"} THEN Tail(s) ELSE s
        lower == [i \in 1..Len(body) |-> ToLower(body[i])]
        nint  == DigitPrefixLen(body)
        rest1 == Drop(body, nint)
        dot   == rest1 # <<>> /\ Head(rest1) = "."
        rest2 == IF dot THEN Tail(rest1) ELSE rest1
        nfrac == IF dot THEN DigitPrefixLen(rest2) ELSE 0
        rest3 == Drop(rest2, nfrac)
        e     == ParseExponent(rest3)
        mant  == DigitsToNat(SubSeq(body, 1, nint) \o SubSeq(rest2, 1, nfrac))
        sc    == e.exp - nfrac
        mag   == IF sc >= 0 THEN Fin(mant * Pow(10, sc), 1) ELSE Fin(mant, Pow(10, -sc))
    IN  IF lower \in {<<"i", "n", "f">>, <<"i", "n", "f", "i", "n", "i", "t", "y">>}
        THEN ParseOk(Inf(IF neg THEN -1 ELSE 1))
        ELSE IF lower = <<"n", "a", "n">> THEN ParseOk(NaN)
        ELSE IF nint + nfrac = 0 \/ ~e.ok THEN ParseErr
        ELSE ParseOk(IF neg THEN FNeg(mag) ELSE mag)


(***************************************************************************)
(* Abp::new.  A panic! is the result [err |-> <which>, cfg |-> <<>>]; the  *)
(* struct literal of line 202 is [err |-> "none", cfg |-> <<fields>>].     *)
(***************************************************************************)
O_MAX == 14745
O_MIN == 1638

Panicked(e) == [err |-> e, cfg |-> <<>>]

\* match part_nr.substring(11, 11): Some(factor), None for the panic! arm
conversion_factor_of(u) ==
    CASE u = <<"M">> -> <<"100.0">>
      [] u = <<"B">> -> <<"100000.0">>
      [] u = <<"K">> -> <<"1000.0">>
      [] u = <<"P">> -> <<"6894.757293">>
      [] OTHER -> <<>>

\* match part_nr.substring(12, 12)
p_min_of(t, p_max) ==
    CASE t = <<"D">> -> <<FNeg(p_max)>>
      [] t = <<"G">> -> <<Fin(0, 1)>>
      [] OTHER -> <<>>

\* match part_nr.substring(13, 13): [err, addr]
i2c_address_of(o) ==
    CASE o = <<"A">> -> [err |-> "UnsupportedInterface", addr |-> 0]
      [] o = <<"S">> -> [err |-> "UnsupportedInterface", addr |-> 0]
      [] o = <<"0">> -> [err |-> "none", addr |-> 8]
      [] o = <<"1">> -> [err |-> "none", addr |-> 24]
      [] o = <<"2">> -> [err |-> "none", addr |-> 40]
      [] o = <<"3">> -> [err |-> "none", addr |-> 56]
      [] o = <<"4">> -> [err |-> "none", addr |-> 72]
      [] o = <<"5">> -> [err |-> "none", addr |-> 88]
      [] o = <<"6">> -> [err |-> "none", addr |-> 104]
      [] o = <<"7">> -> [err |-> "none", addr |-> 120]
      [] OTHER -> [err |-> "UnknownOutputType", addr |-> 0]

\* the first match part_nr.substring(14, 14)
has_sleep_of(f) ==
    CASE f = <<"A">> -> <<FALSE>>
      [] f = <<"D">> -> <<TRUE>>
      [] f = <<"S">> -> <<TRUE>>
      [] f = <<"T">> -> <<FALSE>>
      [] OTHER -> <<>>

\* the second match part_nr.substring(14, 14)
has_thermometer_of(f) ==
    CASE f = <<"A">> -> <<FALSE>>
      [] f = <<"D">> -> <<TRUE>>
      [] f = <<"S">> -> <<FALSE>>
      [] f = <<"T">> -> <<TRUE>>
      [] OTHER -> <<>>

new(pn) ==
    IF substring(pn, 1, 3) # <<"A", "B", "P">> THEN Panicked("InvalidSeries")
    ELSE LET parsed == f32_from_str(substring(pn, 8, 10)) IN
    IF ~parsed.ok THEN Panicked("InvalidRange")
    ELSE LET p_max == parsed.val
             conversion_factor == conversion_factor_of(substring(pn, 11, 11)) IN
    IF conversion_factor = <<>> THEN Panicked("UnknownUnit")
    ELSE LET p_min == p_min_of(substring(pn, 12, 12), p_max) IN
    IF p_min = <<>> THEN Panicked("InvalidRangeType")
    ELSE LET i2c_address == i2c_address_of(substring(pn, 13, 13)) IN
    IF i2c_address.err # "none" THEN Panicked(i2c_address.err)
    ELSE LET has_sleep == has_sleep_of(substring(pn, 14, 14)) IN
    IF has_sleep = <<>> THEN Panicked("InvalidTransferFunction")
    ELSE LET has_thermometer == has_thermometer_of(substring(pn, 14, 14)) IN
    IF has_thermometer = <<>> THEN Panicked("InvalidTransferFunction")
    ELSE [err |-> "none",
          cfg |-> << [p_max |-> p_max, p_min |-> p_min[1], o_max |-> O_MAX, o_min |-> O_MIN,
                      conversion_factor |-> conversion_factor[1],
                      i2c_address |-> i2c_address.addr,
                      has_thermometer |-> has_thermometer[1],
                      has_sleep |-> has_sleep[1]] >>]

(***************************************************************************)
(* The part numbers construction is tried on: an optional leading          *)
(* character, the series marker, "DRRT", a range field, a unit letter, a   *)
(* range type, an output type, a transfer function, the supply voltage;    *)
(* then cut short by some number of characters.                            *)
(***************************************************************************)
Prefixes   == {<<>>, <<"X">>}
Series     == {<<"A", "B", "P">>, <<"A", "B", "X">>}
RangeFlds  == {<<"1", "5", "0">>, <<"0", "0", "0">>, <<"0", "0", "1">>, <<"+", "1", "5">>,
               <<"-", "1", "5">>, <<"1", ".", "5">>, <<"1", "e", "5">>, <<"i", "n", "f">>,
               <<"1", "5", "X">>}
UnitChars  == {"M", "B", "K", "P", "X"}
TypeChars  == {"D", "G", "X"}
OutChars   == {"0", "2", "7", "8", "A", "S"}
FuncChars  == {"A", "D", "S", "T", "X"}
Cuts       == {0, 1, 3, 8, 14}

PartNumbers ==
    { LET full == p \o s \o <<"D", "R", "R", "T">> \o r \o <<u, t, o, f, "3">>
      IN  SubSeq(full, 1, Len(full) - c) :
        p \in Prefixes, s \in Series, r \in RangeFlds, u \in UnitChars, t \in TypeChars,
        o \in OutChars, f \in FuncChars, c \in Cuts }

NoCall == [op |-> "none", in |-> [ok |-> TRUE, bytes |-> <<>>, err |-> "none"],
           out |-> [kind |-> "none", val |-> NaN, err |-> "none"]]

Idle ==
    /\ calls = 0 /\ i2c_log = <<>> /\ delay_calls = 0 /\ last = NoCall /\ seen = {}
    /\ buffer = <<0, 0, 0, 0>> /\ out2 = <<>> /\ out4 = <<>>

Init ==
    /\ pc = "start"
    /\ part_nr \in PartNumbers
    /\ self = <<>> /\ self0 = <<>> /\ panic = "none"
    /\ Idle

\* let sensor = Abp::new(i2c, delay, part_nr);
Construct ==
    /\ pc = "start"
    /\ LET r == new(part_nr) IN
         /\ pc' = IF r.err = "none" THEN "constructed" ELSE "panicked"
         /\ self' = r.cfg
         /\ self0' = r.cfg
         /\ panic' = r.err
    /\ UNCHANGED <<part_nr, calls, i2c_log, delay_calls, last, seen, buffer, out2, out4>>

Next == Construct

Spec == Init /\ [][Next]_vars

(***************************************************************************)
(* The bitmatch crate.  A pattern is read left to right, most significant  *)
(* bit first, blanks ignored.  #[bitmatch] let binds each letter to the    *)
(* bits under it, packed to the right; bitpack! writes, under the k        *)
(* occurrences of a letter, the low k bits of that variable.               *)
(***************************************************************************)
StripBlanks(p) == SelectSeq(p, LAMBDA c : c # " ")

Bit(v, i) == (v \div Pow(2, i)) % 2

RECURSIVE CountIn(_, _)
CountIn(c, p) ==
    IF p = <<>> THEN 0 ELSE (IF Head(p) = c THEN 1 ELSE 0) + CountIn(c, Tail(p))

RECURSIVE LetBits(_, _, _, _)
LetBits(p, v, c, i) ==
    IF i > Len(p) THEN 0
    ELSE (IF p[i] = c THEN Bit(v, Len(p) - i) * Pow(2, CountIn(c, SubSeq(p, i + 1, Len(p))))
          ELSE 0) + LetBits(p, v, c, i + 1)

bitmatch_let(pattern, v, c) == LetBits(StripBlanks(pattern), v, c, 1)

RECURSIVE PackBits(_, _, _)
PackBits(t, env, i) ==
    IF i > Len(t) THEN 0
    ELSE (CASE t[i] = "0" -> 0
            [] t[i] = "1" -> Pow(2, Len(t) - i)
            [] OTHER -> Bit(env[t[i]], CountIn(t[i], SubSeq(t, i + 1, Len(t))))
                          * Pow(2, Len(t) - i))
         + PackBits(t, env, i + 1)

bitpack(template, env) == PackBits(StripBlanks(template), env, 1)

\* impl From<u8> for Status
status_from(s) ==
    CASE s = 0 -> "Valid"
      [] s = 1 -> "Command"
      [] s = 2 -> "Stale"
      [] s = 3 -> "Diagnostic"
      [] OTHER -> "panic"

\* the discriminants of enum Status
status_code(name) ==
    CASE name = "Valid" -> 0
      [] name = "Command" -> 1
      [] name = "Stale" -> 2
      [] name = "Diagnostic" -> 3

\* a variant with the pressure bits packed without the shift of the high six
decode_pressure_swapped(buf) ==
    LET env == 
               ("s" :> bitmatch_let(<<"s", "s", " ", "p", "p", " ", "p", "p", " ", "p", "p">>, buf[1], "s"))
            @@ ("p" :> bitmatch_let(<<"s", "s", " ", "p", "p", " ", "p", "p", " ", "p", "p">>, buf[1], "p"))
            @@ ("q" :> bitmatch_let(<<"q", "q", " ", "q", "q", " ", "q", "q", " ", "q", "q">>, buf[2], "q"))
    IN  << bitpack(<<"0", "0", " ", "0", "0", " ", "0", "0", " ", "s", "s">>, env),
           bitpack(<<"0", "0", "q", "q", "q", "q", "q", "q", "q", "q", "p", "p", "p", "p", "p", "p">>, env) >>

\* fn decode_pressure(buffer: &[u8;2]) -> (u8, u16); buf[1] is buffer[0]
decode_pressure(buf) ==
    LET env == 
               ("s" :> bitmatch_let(<<"s", "s", " ", "p", "p", " ", "p", "p", " ", "p", "p">>, buf[1], "s"))
            @@ ("p" :> bitmatch_let(<<"s", "s", " ", "p", "p", " ", "p", "p", " ", "p", "p">>, buf[1], "p"))
            @@ ("q" :> bitmatch_let(<<"q", "q", " ", "q", "q", " ", "q", "q", " ", "q", "q">>, buf[2], "q"))
    IN  << bitpack(<<"0", "0", " ", "0", "0", " ", "0", "0", " ", "s", "s">>, env),
           bitpack(<<"0", "0", "p", "p", "p", "p", "p", "p", "q", "q", "q", "q", "q", "q", "q", "q">>, env) >>

\* fn decode_pressure_and_temperature(buffer: &[u8;4]) -> Output
decode_pressure_and_temperature(buf) ==
    LET env == 
               ("s" :> bitmatch_let(<<"s", "s", "p", "p", "p", "p", "p", "p">>, buf[1], "s"))
            @@ ("p" :> bitmatch_let(<<"s", "s", "p", "p", "p", "p", "p", "p">>, buf[1], "p"))
            @@ ("q" :> bitmatch_let(<<"q", "q", "q", "q", "q", "q", "q", "q">>, buf[2], "q"))
            @@ ("t" :> bitmatch_let(<<"t", "t", "t", "t", "t", "t", "t", "t">>, buf[3], "t"))
            @@ ("v" :> bitmatch_let(<<"v", "v", "v", "?", "?", "?", "?", "?">>, buf[4], "v"))
        pressure    == bitpack(<<"0", "0", "p", "p", "p", "p", "p", "p", "q", "q", "q", "q", "q", "q", "q", "q">>, env)
        s           == bitpack(<<"0", "0", "0", "0", "0", "0", "s", "s">>, env)
        temperature == bitpack(<<"0", "0", "0", "0", "0", "t", "t", "t", "t", "t", "t", "t", "t", "v", "v", "v">>, env)
    IN  [status |-> status_from(s), pressure |-> pressure, temperature |-> temperature]

(***************************************************************************)
(* The decoders applied to a buffer.                                       *)
(***************************************************************************)
Byte0s == {64 * s + h : s \in 0..3, h \in {0, 1, 21, 32, 42, 63}}
Byte1s == {0, 1, 170, 255}
Byte2s == {0, 1, 128, 255}
Byte3s == {0, 31, 32, 160, 255}

InitDecode ==
    /\ pc = "decode"
    /\ buffer \in {<<b0, b1, b2, b3>> : b0 \in Byte0s, b1 \in Byte1s, b2 \in Byte2s, b3 \in Byte3s}
    /\ out2 = <<>> /\ out4 = <<>>
    /\ part_nr = <<>> /\ self = <<>> /\ self0 = <<>> /\ panic = "none"
    /\ calls = 0 /\ i2c_log = <<>> /\ delay_calls = 0 /\ last = NoCall /\ seen = {}

DecodePressure ==
    /\ pc = "decode" /\ out2 = <<>>
    /\ out2' = << decode_pressure(<<buffer[1], buffer[2]>>) >>
    /\ UNCHANGED <<pc, part_nr, self, self0, panic, calls, i2c_log, delay_calls, last, seen,
                   buffer, out4>>

DecodePressureAndTemperature ==
    /\ pc = "decode" /\ out4 = <<>>
    /\ out4' = << decode_pressure_and_temperature(buffer) >>
    /\ UNCHANGED <<pc, part_nr, self, self0, panic, calls, i2c_log, delay_calls, last, seen,
                   buffer, out2>>

NextDecode == DecodePressure \/ DecodePressureAndTemperature

SpecDecode == InitDecode /\ [][NextDecode]_vars

(***************************************************************************)
(* Abp::read and Abp::pressure_and_temperature.  What the bus does with    *)
(* i2c.read(address, &mut buffer) is the call's input: [ok, bytes, err].   *)
(***************************************************************************)
\* fn convert_pressure(&self, reading: f32) -> f32
convert_pressure(cfg, reading) ==
    FAdd(FMul(FDiv(FFromInt(cfg.o_max - cfg.o_min), FSub(cfg.p_max, cfg.p_min)),
              FSub(reading, cfg.p_min)),
         FFromInt(cfg.o_min))

Returned(kind, val, err) == [kind |-> kind, val |-> val, err |-> err]

\* The names a pattern of read()'s match can resolve to: the file imports no
\* variant of Status (and the scrutinee is a u8), so there are none and each
\* pattern is an identifier pattern, which binds whatever value it is given.
PathsInScope == {}

PatternMatches(pat, v) == IF pat \in PathsInScope THEN v = status_code(pat) ELSE TRUE

\* match status { Valid => .., Command => .., Stale => .., Diagnostic => .. }
ReadArms == << [pat |-> "Valid",      kind |-> "Ok"],
               [pat |-> "Command",    kind |-> "ErrorCommandMode"],
               [pat |-> "Stale",      kind |-> "WouldBlock"],
               [pat |-> "Diagnostic", kind |-> "ErrorDiagnosticState"] >>

match_status(status) ==
    ReadArms[CHOOSE i \in 1..Len(ReadArms) :
               /\ PatternMatches(ReadArms[i].pat, status)
               /\ \A j \in 1..(i - 1) : ~PatternMatches(ReadArms[j].pat, status)]

\* what read() returns, given what the bus did
read_returns(cfg, res) ==
    IF ~res.ok THEN Returned("BusError", NaN, res.err)
    ELSE LET d   == decode_pressure(res.bytes)
             arm == match_status(d[1])
         IN  IF arm.kind = "Ok"
             THEN Returned("Ok", convert_pressure(cfg, FFromInt(d[2])), "none")
             ELSE Returned(arm.kind, NaN, "none")

\* what pressure_and_temperature() returns, given what the bus did
pressure_and_temperature_returns(cfg, res) ==
    IF ~res.ok THEN Returned("BusError", NaN, res.err)
    ELSE LET output == decode_pressure_and_temperature(res.bytes)
         IN  Returned("Ok", convert_pressure(cfg, FFromInt(output.pressure)), "none")

MaxCalls == 3

BusErrors == {"NoAcknowledge", "ArbitrationLoss"}
Failed    == {[ok |-> FALSE, bytes |-> <<>>, err |-> e] : e \in BusErrors}
FrameHeads == {21, 85, 149, 213}
Frames2   == {[ok |-> TRUE, bytes |-> <<b0, 170>>, err |-> "none"] : b0 \in FrameHeads}
Frames4   == {[ok |-> TRUE, bytes |-> <<b0, 170, 100, 96>>, err |-> "none"] : b0 \in FrameHeads}

\* Abp::new returns for no part number (C1), so read() and
\* pressure_and_temperature() are checked as functions of their receiver: self is
\* any value the struct literal of Abp::new can hold over the values of its tables.
Drivers ==
    { [p_max |-> FFromInt(pm), p_min |-> p_min_of(<<t>>, FFromInt(pm))[1],
       o_max |-> O_MAX, o_min |-> O_MIN,
       conversion_factor |-> conversion_factor_of(<<"P">>)[1],
       i2c_address |-> i2c_address_of(<<o>>).addr,
       has_thermometer |-> has_thermometer_of(<<f>>)[1],
       has_sleep |-> has_sleep_of(<<f>>)[1]] :
        pm \in {150}, t \in {"D", "G"}, o \in {"0", "2"}, f \in {"A", "D"} }

InitRead ==
    /\ pc = "ready"
    /\ self \in {<<d>> : d \in Drivers}
    /\ self0 = self
    /\ part_nr = <<>> /\ panic = "none"
    /\ Idle

\* a variant of read() that asks the bus again, after a delay, when the data is stale
read_retrying(res) ==
    /\ pc = "ready" /\ calls < MaxCalls /\ res \in Frames2 \cup Failed
    /\ LET out   == read_returns(self[1], res)
           rd    == [address |-> self[1].i2c_address, len |-> 2]
           stale == res.ok /\ decode_pressure(res.bytes)[1] = 2
       IN  /\ i2c_log' = IF stale THEN <<rd, rd>> ELSE <<rd>>
           /\ delay_calls' = IF stale THEN delay_calls + 1 ELSE delay_calls
           /\ last' = [op |-> "read", in |-> res, out |-> out]
           /\ seen' = seen \cup {<<"read", res, out>>}
    /\ calls' = calls + 1
    /\ UNCHANGED <<pc, part_nr, self, self0, panic, buffer, out2, out4>>

\* pub fn read(&mut self)
read(res) ==
    /\ pc = "ready" /\ calls < MaxCalls /\ res \in Frames2 \cup Failed
    /\ LET out == read_returns(self[1], res)
       IN  /\ i2c_log' = << [address |-> self[1].i2c_address, len |-> 2] >>
           /\ last' = [op |-> "read", in |-> res, out |-> out]
           /\ seen' = seen \cup {<<"read", res, out>>}
    /\ calls' = calls + 1
    /\ UNCHANGED <<pc, part_nr, self, self0, panic, delay_calls, buffer, out2, out4>>

\* a variant of pressure_and_temperature() that keeps the latest raw pressure in o_min
pressure_and_temperature_caching(res) ==
    /\ pc = "ready" /\ calls < MaxCalls /\ res \in Frames4 \cup Failed
    /\ LET out == pressure_and_temperature_returns(self[1], res)
       IN  /\ i2c_log' = << [address |-> self[1].i2c_address, len |-> 4] >>
           /\ last' = [op |-> "pressure_and_temperature", in |-> res, out |-> out]
           /\ seen' = seen \cup {<<"pressure_and_temperature", res, out>>}
           /\ self' = IF res.ok
                      THEN << [self[1] EXCEPT !.o_min =
                                 decode_pressure_and_temperature(res.bytes).pressure % 1024] >>
                      ELSE self
    /\ calls' = calls + 1
    /\ UNCHANGED <<pc, part_nr, self0, panic, delay_calls, buffer, out2, out4>>

\* pub fn pressure_and_temperature(&mut self)
pressure_and_temperature(res) ==
    /\ pc = "ready" /\ calls < MaxCalls /\ res \in Frames4 \cup Failed
    /\ LET out == pressure_and_temperature_returns(self[1], res)
       IN  /\ i2c_log' = << [address |-> self[1].i2c_address, len |-> 4] >>
           /\ last' = [op |-> "pressure_and_temperature", in |-> res, out |-> out]
           /\ seen' = seen \cup {<<"pressure_and_temperature", res, out>>}
    /\ calls' = calls + 1
    /\ UNCHANGED <<pc, part_nr, self, self0, panic, delay_calls, buffer, out2, out4>>

NextRead ==
    \/ \E res \in Frames2 \cup Failed : read(res)
    \/ \E res \in Frames4 \cup Failed : pressure_and_temperature(res)

SpecRead == InitRead /\ [][NextRead]_vars

(***************************************************************************)
(* The part-number format as the documentation states it: offsets count    *)
(* from 1 (the layout comment of Abp::new, lines 132-135).                 *)
(***************************************************************************)
Validated(pn) ==
    /\ Len(pn) >= 14
    /\ SubSeq(pn, 1, 3) = <<"A", "B", "P">>
    /\ \A i \in 8..10 : pn[i] \in Digits
    /\ pn[11] \in {"M", "B", "K", "P"}
    /\ pn[12] \in {"D", "G"}
    /\ pn[13] \in {"0", "1", "2", "3", "4", "5", "6", "7"}
    /\ pn[14] \in {"A", "D", "S", "T"}

WellFormed(pn) == Len(pn) >= 15 /\ Validated(pn)

TabulatedConfiguration(pn) ==
    LET range == 100 * DigitVal(pn[8]) + 10 * DigitVal(pn[9]) + DigitVal(pn[10])
    IN  [p_max |-> Fin(range, 1),
         p_min |-> IF pn[12] = "D" THEN Fin(-range, 1) ELSE Fin(0, 1),
         o_max |-> 14745, o_min |-> 1638,
         conversion_factor |-> CASE pn[11] = "M" -> "100.0" [] pn[11] = "B" -> "100000.0"
                                 [] pn[11] = "K" -> "1000.0" [] pn[11] = "P" -> "6894.757293",
         i2c_address |-> 8 + 16 * DigitVal(pn[13]),
         has_thermometer |-> pn[14] \in {"D", "T"},
         has_sleep |-> pn[14] \in {"D", "S"}]

\* C1: construction with any well-formed part number succeeds and yields the
\* Configuration the tables give (p_max the three-digit number, conversion_factor
\* by unit letter, p_min by range type, i2c_address = 0x08 + 0x10 * digit, the
\* capability flags by transfer-function letter, o_max = 0x3999, o_min = 0x0666).
C1_WellFormedConstructs ==
    (pc # "start" /\ WellFormed(part_nr)) =>
        (pc = "constructed" /\ self = <<TabulatedConfiguration(part_nr)>>)

\* C3: a part number whose output-type character (offset 13) is 'A' or 'S' fails
\* construction with the unsupported-interface error and no other, and no driver
\* is produced.
C3_UnsupportedInterface ==
    (pc # "start" /\ Len(part_nr) >= 13 /\ part_nr[13] \in {"A", "S"}) =>
        (pc = "panicked" /\ panic = "UnsupportedInterface" /\ self = <<>>)

\* C6: construction fails closed: a driver is produced only for a part number
\* whose validated fields are all well formed, and every other string ends in a
\* reported failure with no driver.
C6_FailsClosed ==
    pc # "start" =>
        /\ pc = "constructed" => Validated(part_nr)
        /\ ~Validated(part_nr) => (pc = "panicked" /\ panic # "none" /\ self = <<>>)

\* construction has rejected a part number whose range field carries a sign
C6_Witness ==
    /\ pc = "panicked" /\ panic # "none" /\ self = <<>>
    /\ Len(part_nr) >= 10 /\ part_nr[8] = "+" /\ ~Validated(part_nr)

(***************************************************************************)
(* The frame layout as the documentation states it, in shifts and masks.   *)
(***************************************************************************)
Shr(x, k)  == x \div Pow(2, k)
Shl(x, k)  == x * Pow(2, k)
Mask(x, k) == x % Pow(2, k)

\* C4: decode_pressure([b0,b1]) = (b0 >> 6, ((b0 & 0x3F) << 8) | b1);
\* decode_pressure_and_temperature([b0..b3]) has the same status and pressure,
\* temperature = (b2 << 3) | (b3 >> 5), does not depend on the low 5 bits of b3;
\* status is in 0..3 (the conversion to Status never panics), pressure <= 0x3FFF,
\* temperature <= 0x7FF.
C4_DecodersMatchReference ==
    /\ out2 # <<>> =>
          /\ out2[1] = << Shr(buffer[1], 6), Shl(Mask(buffer[1], 6), 8) + buffer[2] >>
          /\ out2[1][1] \in 0..3 /\ out2[1][2] <= 16383
    /\ out4 # <<>> =>
          /\ out4[1].status # "panic"
          /\ status_code(out4[1].status) = Shr(buffer[1], 6)
          /\ out4[1].pressure = Shl(Mask(buffer[1], 6), 8) + buffer[2]
          /\ out4[1].temperature = Shl(buffer[3], 3) + Shr(buffer[4], 5)
          /\ out4[1].pressure <= 16383 /\ out4[1].temperature <= 2047
          /\ out4[1] = decode_pressure_and_temperature(
                          [buffer EXCEPT ![4] = buffer[4] - Mask(buffer[4], 5)])
    /\ (out2 # <<>> /\ out4 # <<>>) =>
          /\ status_code(out4[1].status) = out2[1][1]
          /\ out4[1].pressure = out2[1][2]

\* both decoders have run on b0 = 0x15, b1 = 0xAA with padding bits set in b3
C4_Witness ==
    /\ out2 = << <<0, 5546>> >> /\ out4 # <<>>
    /\ buffer[1] = 21 /\ buffer[2] = 170 /\ Mask(buffer[4], 5) # 0

(***************************************************************************)
(* The status a frame carries, as the documentation states it.             *)
(***************************************************************************)
FrameStatus(res) == Shr(res.bytes[1], 6)

\* C2: for a 2-byte frame the bus returned, read() delivers the converted
\* pressure on status 0, ErrorCommandMode on 1, WouldBlock on 2 and
\* ErrorDiagnosticState on 3; no frame of status 1, 2 or 3 delivers a value.
C2_StatusDecidesRead ==
    (last.op = "read" /\ last.in.ok) =>
        last.out.kind = CASE FrameStatus(last.in) = 0 -> "Ok"
                          [] FrameStatus(last.in) = 1 -> "ErrorCommandMode"
                          [] FrameStatus(last.in) = 2 -> "WouldBlock"
                          [] FrameStatus(last.in) = 3 -> "ErrorDiagnosticState"

\* C7: on a driver with has_thermometer = false, pressure_and_temperature()
\* rejects the call and never returns a value.
C7_NoThermometerRejects ==
    (last.op = "pressure_and_temperature" /\ ~self0[1].has_thermometer) =>
        last.out.kind # "Ok"

\* C10: pressure_and_temperature() returns a value only when the status decoded
\* from byte 0 of its frame is Valid.
C10_StatusGateOnBothPaths ==
    (last.op = "pressure_and_temperature" /\ last.out.kind = "Ok") =>
        FrameStatus(last.in) = 0

\* C8: every call issues exactly one bus read, at the configured address, of 2
\* bytes for read() and of 4 for pressure_and_temperature(); the delay is never
\* used; a failed bus read is returned as that bus error, without a value and
\* without a status classification.
C8_OneBusReadPerCall ==
    calls > 0 =>
        /\ Len(i2c_log) = 1
        /\ i2c_log[1].address = self0[1].i2c_address
        /\ i2c_log[1].len = (IF last.op = "read" THEN 2 ELSE 4)
        /\ delay_calls = 0
        /\ ~last.in.ok => last.out = [kind |-> "BusError", val |-> NaN, err |-> last.in.err]

\* a bus failure has been returned by pressure_and_temperature() after a stale
\* frame went through read()
C8_Witness ==
    /\ calls >= 2
    /\ last.op = "pressure_and_temperature" /\ ~last.in.ok
    /\ last.out.kind = "BusError" /\ last.out.err = "ArbitrationLoss"
    /\ \E t \in seen : t[1] = "read" /\ t[2].ok /\ FrameStatus(t[2]) = 2

\* C9: the calls leave every Configuration field as construction set it, and a
\* call's outcome is a function of the operation, the bytes (or the error) the bus
\* returned and the Configuration: the same input gives the same outcome whatever
\* calls came in between.
C9_Stateless ==
    /\ self = self0
    /\ \A a \in seen : \A b \in seen : (a[1] = b[1] /\ a[2] = b[2]) => a[3] = b[3]

\* three calls have been made on two distinct inputs, one of each operation, so
\* one input was given twice
C9_Witness ==
    /\ calls = 3 /\ Cardinality(seen) = 2
    /\ \E a \in seen : a[1] = "read" /\ a[2].ok
    /\ \E b \in seen : b[1] = "pressure_and_temperature"
    /\ last.op = "read"

=============================================================================
